---- MODULE Spec2Model ----
(***************************************************************************)
(* Model of the route discovery engine of b-sdk: the PathGraph class       *)
(* (liquidity graph builder and path search).  Tokens and pools are named  *)
(* by their addresses; a pool record carries the fields the code reads.    *)
(***************************************************************************)
EXTENDS Integers, Sequences, FiniteSets, TLC

\* ------------------------------------------------------------------ bounds
\* largest pool snapshot handed to buildGraph
MaxPools == 3
\* largest maxPathsPerTokenPair handed to buildGraph
MaxPairCap == 2
\* largest traded amount, in tens of raw units
MaxUnits == 3
\* most paths handed to Swap.fromPaths
MaxRoutePaths == 2
\* the optimizer's iteration budget
MaxIncrements == 2

\* ------------------------------------------------- defaults set by the code
DefaultMaxPathsPerTokenPair == 2
DefaultMaxDepth == 7
DefaultMaxNonBoostedPathDepth == 3
DefaultMaxNonBoostedHopTokensInBoostedPath == 1
DefaultApproxPathsToReturn == 5

\* ----------------------------------------------------------- input universe
\* P4 lists its own address among its tokens (phantom-bearing); P5 holds P4's
\* pool token.
PoolUniverse ==
  << [id |-> "id1", address |-> "p1", poolType |-> "Weighted",
      tokens |-> <<"A", "B">>, liquidity |-> 100],
     [id |-> "id2", address |-> "p2", poolType |-> "Weighted",
      tokens |-> <<"A", "B">>, liquidity |-> 50],
     [id |-> "id3", address |-> "p3", poolType |-> "Weighted",
      tokens |-> <<"B", "C">>, liquidity |-> 80],
     [id |-> "id4", address |-> "p4", poolType |-> "ComposableStable",
      tokens |-> <<"p4", "A", "B">>, liquidity |-> 1],
     [id |-> "id5", address |-> "p5", poolType |-> "MetaStable",
      tokens |-> <<"C", "p4">>, liquidity |-> 70] >>

Tokens == {"A", "B", "C", "p4"}

\* ------------------------------------------------------------------ helpers
InSeq(x, s) == \E i \in 1..Len(s) : s[i] = x

Range(s) == {s[i] : i \in 1..Len(s)}

RECURSIVE Flatten(_)
Flatten(ss) == IF ss = <<>> THEN <<>> ELSE Head(ss) \o Flatten(Tail(ss))

\* the elements of s in order of first occurrence
RECURSIVE OrderedDistinct(_)
OrderedDistinct(s) ==
  IF s = <<>> THEN <<>>
  ELSE LET front == OrderedDistinct(SubSeq(s, 1, Len(s) - 1))
           last == s[Len(s)]
       IN IF InSeq(last, front) THEN front ELSE Append(front, last)

\* the subsequences of PoolUniverse picked by an index set
RECURSIVE SubUniverse(_,_)
SubUniverse(idxs, i) ==
  IF i > Len(PoolUniverse) THEN <<>>
  ELSE (IF i \in idxs THEN <<PoolUniverse[i]>> ELSE <<>>) \o SubUniverse(idxs, i + 1)

Snapshots ==
  {SubUniverse(idxs, 1) :
     idxs \in {s \in SUBSET (1..Len(PoolUniverse)) : Cardinality(s) <= MaxPools}}

\* --------------------------------------------------------- pool capability
getNormalizedLiquidity(pool, tokenA, tokenB) == pool.liquidity

\* keyBy(pools, 'address'): the last pool of an address wins
keyBy(pools) ==
  [a \in {pools[i].address : i \in 1..Len(pools)} |->
     pools[CHOOSE i \in 1..Len(pools) :
             /\ pools[i].address = a
             /\ \A j \in (i + 1)..Len(pools) : pools[j].address # a]]

\* ------------------------------------------------------ buildSortedPoolPairMap
\* the two entries pushed for the token positions i < j of a pool
PairEntries(pool, i, j) ==
  << [id |-> <<pool.tokens[i], pool.tokens[j]>>,
      poolPair |-> [pool |-> pool, tokenIn |-> pool.tokens[i], tokenOut |-> pool.tokens[j]],
      normalizedLiquidity |-> getNormalizedLiquidity(pool, pool.tokens[i], pool.tokens[j])],
     [id |-> <<pool.tokens[j], pool.tokens[i]>>,
      poolPair |-> [pool |-> pool, tokenIn |-> pool.tokens[j], tokenOut |-> pool.tokens[i]],
      normalizedLiquidity |-> getNormalizedLiquidity(pool, pool.tokens[j], pool.tokens[i])] >>

RECURSIVE PoolEntriesFrom(_,_,_)
PoolEntriesFrom(pool, i, j) ==
  IF i > Len(pool.tokens) - 1 THEN <<>>
  ELSE IF j > Len(pool.tokens) THEN PoolEntriesFrom(pool, i + 1, i + 2)
  ELSE PairEntries(pool, i, j) \o PoolEntriesFrom(pool, i, j + 1)

AllEntries(pools) ==
  Flatten([k \in 1..Len(pools) |-> PoolEntriesFrom(pools[k], 1, 2)])

\* orderBy(items, normalizedLiquidity, 'desc') is a stable sort
RECURSIVE InsertDesc(_,_)
InsertDesc(sorted, x) ==
  IF sorted = <<>> THEN <<x>>
  ELSE IF Head(sorted).normalizedLiquidity >= x.normalizedLiquidity
       THEN <<Head(sorted)>> \o InsertDesc(Tail(sorted), x)
       ELSE <<x>> \o sorted

\* variant: the items are ordered by ascending liquidity
RECURSIVE InsertAsc(_,_)
InsertAsc(sorted, x) ==
  IF sorted = <<>> THEN <<x>>
  ELSE IF Head(sorted).normalizedLiquidity <= x.normalizedLiquidity
       THEN <<Head(sorted)>> \o InsertAsc(Tail(sorted), x)
       ELSE <<x>> \o sorted

RECURSIVE orderByAsc(_)
orderByAsc(items) ==
  IF items = <<>> THEN <<>>
  ELSE InsertAsc(orderByAsc(SubSeq(items, 1, Len(items) - 1)), items[Len(items)])

RECURSIVE orderByDesc(_)
orderByDesc(items) ==
  IF items = <<>> THEN <<>>
  ELSE InsertDesc(orderByDesc(SubSeq(items, 1, Len(items) - 1)), items[Len(items)])

\* the map as the sequence of its keys (insertion order) with their sorted items
buildSortedPoolPairMap(pools) ==
  LET entries == AllEntries(pools)
      keys == OrderedDistinct([k \in 1..Len(entries) |-> entries[k].id])
  IN [k \in 1..Len(keys) |->
        [id |-> keys[k],
         items |-> orderByDesc(SelectSeq(entries, LAMBDA e : e.id = keys[k]))]]

\* ------------------------------------------------------------- buildGraph
\* the label and endpoints of the edge added for a pool pair
EdgeLabel(tokenIn, tokenOut, pool, addressMap) ==
  [tokenIn |-> tokenIn, tokenOut |-> tokenOut,
   poolId |-> pool.id, poolAddress |-> pool.address,
   poolPair |-> [tokenIn |-> tokenIn, tokenOut |-> tokenOut],
   normalizedLiquidity |-> getNormalizedLiquidity(pool, tokenIn, tokenOut),
   isPhantomBptHop |-> (tokenIn \in DOMAIN addressMap) \/ (tokenOut \in DOMAIN addressMap)]

\* graph.setEdge by name: an edge of the same name keeps its place
addGraphEdgeForPoolPair(edges, tokenIn, tokenOut, pool, addressMap) ==
  LET label == EdgeLabel(tokenIn, tokenOut, pool, addressMap)
      same(e) == e.poolId = pool.id /\ e.tokenIn = tokenIn /\ e.tokenOut = tokenOut
  IN IF \E k \in 1..Len(edges) : same(edges[k])
     THEN [k \in 1..Len(edges) |-> IF same(edges[k]) THEN label ELSE edges[k]]
     ELSE Append(edges, label)

IsPhantomBearing(pool) == InSeq(pool.address, pool.tokens)

\* variant: the rank alone decides, phantom-bearing pools are pruned too
KeepPair_RankOnly(i, pool, maxPaths) == i < maxPaths

\* the condition under which item i (counted from 0) of a pair is kept
KeepPair(i, pool, maxPaths) == i < maxPaths \/ IsPhantomBearing(pool)

RECURSIVE AddItems(_,_,_,_,_)
AddItems(edges, items, i, maxPaths, addressMap) ==
  IF i > Len(items) THEN edges
  ELSE LET poolPair == items[i].poolPair
           pool == addressMap[poolPair.pool.address]
           next == IF KeepPair(i - 1, pool, maxPaths)
                   THEN addGraphEdgeForPoolPair(edges, poolPair.tokenIn,
                                                poolPair.tokenOut, pool, addressMap)
                   ELSE edges
       IN AddItems(next, items, i + 1, maxPaths, addressMap)

RECURSIVE AddGroups(_,_,_,_,_)
AddGroups(edges, map, k, maxPaths, addressMap) ==
  IF k > Len(map) THEN edges
  ELSE AddGroups(AddItems(edges, map[k].items, 1, maxPaths, addressMap),
                 map, k + 1, maxPaths, addressMap)

\* the edges of the graph built from a snapshot, in insertion order
GraphEdges(pools, maxPaths) ==
  AddGroups(<<>>, buildSortedPoolPairMap(pools), 1, maxPaths, keyBy(pools))

\* ------------------------------------------------------------------- state
VARIABLES
  graph,                 \* PathGraph.graph: the sequence of its edges
  poolAddressMap,        \* PathGraph.poolAddressMap
  graphIsInitialized,    \* PathGraph.graphIsInitialized
  maxPathsPerTokenPair,  \* PathGraph.maxPathsPerTokenPair
  pc,                    \* position inside traverseGraphAndFindBestPaths
  tokenIn,               \* arguments of the running call
  tokenOut,
  config,
  paths,                 \* locals of the running call
  selectedPathIds,
  seenPoolAddresses,
  idx,
  result,                \* the value returned by the last call
  relaxLog,              \* history: seenPoolAddresses before/after each relaxation
  pathEpoch,             \* history: relaxations done when each path was accepted
  sorPc,                 \* what the caller of the swap entities holds
  pricedPath,            \* a PathWithAmount and the outcome of its outputAmount()
  swap,                  \* the Swap built last, or the error thrown instead
  request,               \* the arguments of the last getSwaps
  swapInfo,              \* the value getSwaps resolved to, or the error
  amountRead,            \* the outcome of reading an aggregate of swap
  reqs,                  \* the getSwaps calls in flight on one SmartOrderRouter
  joinCall               \* the weighted join call built last

graphVars == <<graph, poolAddressMap, graphIsInitialized, maxPathsPerTokenPair>>
callVars == <<tokenIn, tokenOut, config>>
localVars == <<paths, selectedPathIds, seenPoolAddresses, idx>>
histVars == <<relaxLog, pathEpoch>>
swapVars == <<sorPc, pricedPath, swap, request, swapInfo, amountRead>>
searchVars == <<graphVars, pc, callVars, localVars, result, histVars>>
sorVars == <<reqs>>
joinVars == <<joinCall>>
vars == <<searchVars, swapVars, sorVars, joinVars>>

\* --------------------------------------------------------- graph queries
\* variant: every token is taken for a node of the graph
hasNode_Always(token) == TRUE

\* setEdge creates the nodes of an edge: the nodes are the edges' endpoints
hasNode(token) ==
  token \in {graph[k].tokenIn : k \in 1..Len(graph)}
               \cup {graph[k].tokenOut : k \in 1..Len(graph)}

\* graph.successors(v): the successors in order of their first edge
successors(token) ==
  LET out == SelectSeq(graph, LAMBDA e : e.tokenIn = token)
  IN OrderedDistinct([k \in 1..Len(out) |-> out[k].tokenOut])

\* graph.outEdges(v, w): the parallel edges in insertion order
outEdges(v, w) == SelectSeq(graph, LAMBDA e : e.tokenIn = v /\ e.tokenOut = w)

\* ------------------------------------------------------------ path search
Null == <<>>

NoAllowList == {"undefined"}

getIdForPath(path) ==
  [k \in 1..Len(path) |-> <<path[k].poolId, path[k].tokenIn, path[k].tokenOut>>]

\* variant: the filter keeps the pools that are not Weighted
filterVolatilePools_Stable(poolAddresses) ==
  SelectSeq(poolAddresses, LAMBDA a : poolAddressMap[a].poolType # "Weighted")

filterVolatilePools(poolAddresses) ==
  SelectSeq(poolAddresses, LAMBDA a : poolAddressMap[a].poolType = "Weighted")

isValidTokenPath(tokenPath, cfg, tIn, tOut) ==
  LET hopTokens == SelectSeq(tokenPath, LAMBDA t : t # tIn /\ t # tOut)
      numStandardHopTokens ==
        Len(SelectSeq(hopTokens, LAMBDA t : t \notin DOMAIN poolAddressMap))
      isBoostedPath ==
        Len(SelectSeq(tokenPath, LAMBDA t : t \in DOMAIN poolAddressMap)) > 0
  IN IF Len(tokenPath) > cfg.maxDepth THEN FALSE
     ELSE IF isBoostedPath
             /\ numStandardHopTokens > cfg.maxNonBoostedHopTokensInBoostedPath
          THEN FALSE
     ELSE IF Len(tokenPath) > cfg.maxNonBoostedPathDepth
             /\ numStandardHopTokens > cfg.maxNonBoostedHopTokensInBoostedPath
          THEN FALSE
     ELSE TRUE

\* variant: a path may hop through the same pool twice
isValidPath_NoUniquePools(path, seen, selected, cfg) ==
  LET isBoostedPath ==
        Len(SelectSeq(path, LAMBDA e : e.tokenIn \in DOMAIN poolAddressMap
                                       \/ e.tokenOut \in DOMAIN poolAddressMap)) > 0
      uniquePools == OrderedDistinct([k \in 1..Len(path) |-> path[k].poolId])
      intersection == SelectSeq(path, LAMBDA e : InSeq(e.poolAddress, seen))
  IN IF cfg.poolIdsToInclude # NoAllowList
        /\ \E k \in 1..Len(path) : path[k].poolId \notin cfg.poolIdsToInclude
     THEN FALSE
     ELSE IF ~isBoostedPath /\ Len(path) + 1 > cfg.maxNonBoostedPathDepth THEN FALSE
     ELSE IF Len(intersection) > 0 THEN FALSE
     ELSE IF InSeq(getIdForPath(path), selected) THEN FALSE
     ELSE TRUE

\* variant: a path already selected is not recognised
isValidPath_NoDuplicateCheck(path, seen, selected, cfg) ==
  LET isBoostedPath ==
        Len(SelectSeq(path, LAMBDA e : e.tokenIn \in DOMAIN poolAddressMap
                                       \/ e.tokenOut \in DOMAIN poolAddressMap)) > 0
      uniquePools == OrderedDistinct([k \in 1..Len(path) |-> path[k].poolId])
      intersection == SelectSeq(path, LAMBDA e : InSeq(e.poolAddress, seen))
  IN IF cfg.poolIdsToInclude # NoAllowList
        /\ \E k \in 1..Len(path) : path[k].poolId \notin cfg.poolIdsToInclude
     THEN FALSE
     ELSE IF ~isBoostedPath /\ Len(path) + 1 > cfg.maxNonBoostedPathDepth THEN FALSE
     ELSE IF Len(uniquePools) # Len(path) THEN FALSE
     ELSE IF Len(intersection) > 0 THEN FALSE
     ELSE TRUE

\* variant: the length of a path without boosted hop is not checked
isValidPath_NoDepthCheck(path, seen, selected, cfg) ==
  LET isBoostedPath ==
        Len(SelectSeq(path, LAMBDA e : e.tokenIn \in DOMAIN poolAddressMap
                                       \/ e.tokenOut \in DOMAIN poolAddressMap)) > 0
      uniquePools == OrderedDistinct([k \in 1..Len(path) |-> path[k].poolId])
      intersection == SelectSeq(path, LAMBDA e : InSeq(e.poolAddress, seen))
  IN IF cfg.poolIdsToInclude # NoAllowList
        /\ \E k \in 1..Len(path) : path[k].poolId \notin cfg.poolIdsToInclude
     THEN FALSE
     ELSE IF Len(uniquePools) # Len(path) THEN FALSE
     ELSE IF Len(intersection) > 0 THEN FALSE
     ELSE IF InSeq(getIdForPath(path), selected) THEN FALSE
     ELSE TRUE

\* variant: the allow-list of pool ids is ignored
isValidPath_NoAllowList(path, seen, selected, cfg) ==
  LET isBoostedPath ==
        Len(SelectSeq(path, LAMBDA e : e.tokenIn \in DOMAIN poolAddressMap
                                       \/ e.tokenOut \in DOMAIN poolAddressMap)) > 0
      uniquePools == OrderedDistinct([k \in 1..Len(path) |-> path[k].poolId])
      intersection == SelectSeq(path, LAMBDA e : InSeq(e.poolAddress, seen))
  IN IF ~isBoostedPath /\ Len(path) + 1 > cfg.maxNonBoostedPathDepth THEN FALSE
     ELSE IF Len(uniquePools) # Len(path) THEN FALSE
     ELSE IF Len(intersection) > 0 THEN FALSE
     ELSE IF InSeq(getIdForPath(path), selected) THEN FALSE
     ELSE TRUE

\* variant: pools already used by accepted paths are not excluded
isValidPath_NoSeenCheck(path, seen, selected, cfg) ==
  LET isBoostedPath ==
        Len(SelectSeq(path, LAMBDA e : e.tokenIn \in DOMAIN poolAddressMap
                                       \/ e.tokenOut \in DOMAIN poolAddressMap)) > 0
      uniquePools == OrderedDistinct([k \in 1..Len(path) |-> path[k].poolId])
      intersection == SelectSeq(path, LAMBDA e : InSeq(e.poolAddress, seen))
  IN IF cfg.poolIdsToInclude # NoAllowList
        /\ \E k \in 1..Len(path) : path[k].poolId \notin cfg.poolIdsToInclude
     THEN FALSE
     ELSE IF ~isBoostedPath /\ Len(path) + 1 > cfg.maxNonBoostedPathDepth THEN FALSE
     ELSE IF Len(uniquePools) # Len(path) THEN FALSE
     ELSE IF InSeq(getIdForPath(path), selected) THEN FALSE
     ELSE TRUE

isValidPath(path, seen, selected, cfg) ==
  LET isBoostedPath ==
        Len(SelectSeq(path, LAMBDA e : e.tokenIn \in DOMAIN poolAddressMap
                                       \/ e.tokenOut \in DOMAIN poolAddressMap)) > 0
      uniquePools == OrderedDistinct([k \in 1..Len(path) |-> path[k].poolId])
      intersection == SelectSeq(path, LAMBDA e : InSeq(e.poolAddress, seen))
  IN IF cfg.poolIdsToInclude # NoAllowList
        /\ \E k \in 1..Len(path) : path[k].poolId \notin cfg.poolIdsToInclude
     THEN FALSE
     ELSE IF ~isBoostedPath /\ Len(path) + 1 > cfg.maxNonBoostedPathDepth THEN FALSE
     ELSE IF Len(uniquePools) # Len(path) THEN FALSE
     ELSE IF Len(intersection) > 0 THEN FALSE
     ELSE IF InSeq(getIdForPath(path), selected) THEN FALSE
     ELSE TRUE

\* the edge buildPath takes for one hop: the preferred rank, else the top one
\* variant: the last parallel edge stands in for the ranked one
HopEdge_Last(v, w, tokenPairIndex) ==
  LET edges == outEdges(v, w)
  IN IF tokenPairIndex > 0 /\ Len(edges) > tokenPairIndex THEN edges[Len(edges)]
     ELSE edges[1]

HopEdge(v, w, tokenPairIndex) ==
  LET edges == outEdges(v, w)
  IN IF Len(edges) > tokenPairIndex THEN edges[tokenPairIndex + 1] ELSE edges[1]

buildPath(tokenPath, tokenPairIndex) ==
  LET isUnique ==
        \E i \in 1..(Len(tokenPath) - 1) :
           Len(outEdges(tokenPath[i], tokenPath[i + 1])) > tokenPairIndex
      path == [i \in 1..(Len(tokenPath) - 1) |->
                 HopEdge(tokenPath[i], tokenPath[i + 1], tokenPairIndex)]
  IN IF isUnique THEN path ELSE Null

\* sortBy(successors, peek ahead one level) is stable
SortByLookahead(succs, tOut) ==
  SelectSeq(succs, LAMBDA s : InSeq(tOut, successors(s)))
    \o SelectSeq(succs, LAMBDA s : ~InSeq(tOut, successors(s)))

RECURSIVE traverseGraphAndFindUniquePath(_,_,_,_,_,_,_,_)
RECURSIVE TraverseSuccessors(_,_,_,_,_,_,_,_)

traverseGraphAndFindUniquePath(token, tIn, tOut, tokenPath, tokenPairIndex, cfg, seen, selected) ==
  IF ~isValidTokenPath(tokenPath, cfg, tIn, tOut) THEN Null
  ELSE
    LET succs == SelectSeq(successors(token), LAMBDA s : ~InSeq(s, tokenPath))
        direct == IF InSeq(tOut, succs)
                  THEN buildPath(Append(tokenPath, tOut), tokenPairIndex)
                  ELSE Null
    IN IF direct # Null /\ isValidPath(direct, seen, selected, cfg)
       THEN direct
       ELSE TraverseSuccessors(SortByLookahead(succs, tOut), tIn, tOut, tokenPath,
                               tokenPairIndex, cfg, seen, selected)

\* the loop over the sorted successors: the first result that is not null
TraverseSuccessors(sorted, tIn, tOut, tokenPath, tokenPairIndex, cfg, seen, selected) ==
  IF sorted = <<>> THEN Null
  ELSE
    LET r == traverseGraphAndFindUniquePath(Head(sorted), tIn, tOut,
                                            Append(tokenPath, Head(sorted)),
                                            tokenPairIndex, cfg, seen, selected)
    IN IF r # Null THEN r
       ELSE TraverseSuccessors(Tail(sorted), tIn, tOut, tokenPath,
                               tokenPairIndex, cfg, seen, selected)

\* variant: the token list is built from the hops' input tokens
ToPath_TokenIn(path) ==
  [tokens |-> <<path[1].poolPair.tokenIn>>
                \o [k \in 1..Len(path) |-> path[k].poolPair.tokenIn],
   pools |-> [k \in 1..Len(path) |-> poolAddressMap[path[k].poolAddress]]]

\* the Path value returned for one found path
ToPath(path) ==
  [tokens |-> <<path[1].poolPair.tokenIn>>
                \o [k \in 1..Len(path) |-> path[k].poolPair.tokenOut],
   pools |-> [k \in 1..Len(path) |-> poolAddressMap[path[k].poolAddress]]]

\* ------------------------------------------------------------ call inputs
\* the defaults the call applies under the caller's overrides
DefaultConfig ==
  [maxDepth |-> DefaultMaxDepth,
   maxNonBoostedPathDepth |-> DefaultMaxNonBoostedPathDepth,
   maxNonBoostedHopTokensInBoostedPath |-> DefaultMaxNonBoostedHopTokensInBoostedPath,
   approxPathsToReturn |-> DefaultApproxPathsToReturn,
   poolIdsToInclude |-> NoAllowList]

\* the allow-lists of pool ids a caller passes
AllowLists == {{"id1", "id3"}, {"id4"}, {}}

\* the overrides of the limits without allow-list, and the defaults with one
Configs ==
  [maxDepth : {2, DefaultMaxDepth},
   maxNonBoostedPathDepth : {2, DefaultMaxNonBoostedPathDepth},
   maxNonBoostedHopTokensInBoostedPath : {0, DefaultMaxNonBoostedHopTokensInBoostedPath},
   approxPathsToReturn : {0, 1, DefaultApproxPathsToReturn},
   poolIdsToInclude : {NoAllowList}]
  \cup {[DefaultConfig EXCEPT !.poolIdsToInclude = l] : l \in AllowLists}

\* the getSwaps calls that can be in flight at once on one SmartOrderRouter
Requests == 1..2

\* a request slot with no call in flight
NoRequest ==
  [pc |-> "idle", tokenIn |-> "A", tokenOut |-> "A", swapKind |-> "GivenIn",
   swapAmount |-> [token |-> "A", amount |-> 0], pools |-> <<>>,
   observed |-> <<>>, candidatePaths |-> <<>>, swapInfo |-> <<>>]

\* ------------------------------------------------------------------- Init
Init ==
  /\ graph = <<>>
  /\ poolAddressMap = <<>>
  /\ graphIsInitialized = FALSE
  /\ maxPathsPerTokenPair = DefaultMaxPathsPerTokenPair
  /\ pc = "idle"
  /\ tokenIn = "A"
  /\ tokenOut = "A"
  /\ config = DefaultConfig
  /\ paths = <<>>
  /\ selectedPathIds = <<>>
  /\ seenPoolAddresses = <<>>
  /\ idx = 0
  /\ result = <<>>
  /\ relaxLog = <<>>
  /\ pathEpoch = <<>>
  /\ sorPc = "idle"
  /\ pricedPath = <<>>
  /\ swap = <<>>
  /\ request = <<>>
  /\ swapInfo = <<>>
  /\ amountRead = <<>>
  /\ reqs = [i \in Requests |-> NoRequest]
  /\ joinCall = <<>>

\* ---------------------------------------------------------------- actions
\* the arguments, locals and result of a finished call are out of scope once
\* the next request begins
ForgetCall ==
  /\ tokenIn' = "A" /\ tokenOut' = "A"
  /\ config' = DefaultConfig
  /\ paths' = <<>> /\ selectedPathIds' = <<>> /\ seenPoolAddresses' = <<>>
  /\ idx' = 0
  /\ result' = <<>>
  /\ relaxLog' = <<>> /\ pathEpoch' = <<>>

buildGraph(pools, maxPaths) ==
  /\ pc = "idle"
  /\ poolAddressMap' = keyBy(pools)
  /\ graph' = GraphEdges(pools, maxPaths)
  /\ graphIsInitialized' = TRUE
  /\ maxPathsPerTokenPair' = maxPaths
  /\ ForgetCall
  /\ UNCHANGED pc
  /\ UNCHANGED swapVars
  /\ UNCHANGED <<sorVars, joinVars>>

\* buildGraph on pools one of which throws from getNormalizedLiquidity: the
\* error leaves buildSortedPoolPairMap and buildGraph after the pool map was
\* assigned and before the graph, the flag and the cap are
buildGraphThrows(pools, maxPaths) ==
  /\ pc = "idle"
  /\ pools # <<>>
  /\ poolAddressMap' = keyBy(pools)
  /\ UNCHANGED <<graph, graphIsInitialized, maxPathsPerTokenPair>>
  /\ UNCHANGED <<pc, callVars, localVars, result, histVars>>
  /\ UNCHANGED swapVars
  /\ UNCHANGED <<sorVars, joinVars>>

\* entry of traverseGraphAndFindBestPaths with a token missing from the graph
FindPathsAbsent(tIn, tOut, cfg) ==
  /\ pc = "idle"
  /\ ~(hasNode(tIn) /\ hasNode(tOut))
  /\ tokenIn' = tIn /\ tokenOut' = tOut /\ config' = cfg
  /\ paths' = <<>> /\ selectedPathIds' = <<>> /\ seenPoolAddresses' = <<>>
  /\ idx' = 0
  /\ relaxLog' = <<>> /\ pathEpoch' = <<>>
  /\ result' = <<>>
  /\ pc' = "done"
  /\ UNCHANGED graphVars
  /\ UNCHANGED swapVars
  /\ UNCHANGED <<sorVars, joinVars>>

\* entry of traverseGraphAndFindBestPaths: defaults applied, locals created
FindPathsStart(tIn, tOut, cfg) ==
  /\ pc = "idle"
  /\ hasNode(tIn) /\ hasNode(tOut)
  /\ tokenIn' = tIn /\ tokenOut' = tOut /\ config' = cfg
  /\ paths' = <<>> /\ selectedPathIds' = <<>> /\ seenPoolAddresses' = <<>>
  /\ idx' = 0
  /\ relaxLog' = <<>> /\ pathEpoch' = <<>>
  /\ pc' = "while"
  /\ UNCHANGED <<graphVars, result>>
  /\ UNCHANGED swapVars
  /\ UNCHANGED <<sorVars, joinVars>>

\* while (paths.length < approxPathsToReturn): enter a round or leave the loop
WhileEnter ==
  /\ pc = "while"
  /\ Len(paths) < config.approxPathsToReturn
  /\ idx' = 0
  /\ pc' = "for"
  /\ UNCHANGED <<graphVars, callVars, paths, selectedPathIds, seenPoolAddresses,
                 result, histVars>>
  /\ UNCHANGED swapVars
  /\ UNCHANGED <<sorVars, joinVars>>

WhileExit ==
  /\ pc = "while"
  /\ ~(Len(paths) < config.approxPathsToReturn)
  /\ pc' = "return"
  /\ UNCHANGED <<graphVars, callVars, localVars, result, histVars>>
  /\ UNCHANGED swapVars
  /\ UNCHANGED <<sorVars, joinVars>>

\* for (idx < maxPathsPerTokenPair): the inner while starts with foundPath = true
\* variant: the for loop runs one rank beyond the cap
ForEnter_OneMore ==
  /\ pc = "for"
  /\ idx < maxPathsPerTokenPair + 1
  /\ pc' = "search"
  /\ UNCHANGED <<graphVars, callVars, localVars, result, histVars>>
  /\ UNCHANGED swapVars
  /\ UNCHANGED <<sorVars, joinVars>>

ForEnter ==
  /\ pc = "for"
  /\ idx < maxPathsPerTokenPair
  /\ pc' = "search"
  /\ UNCHANGED <<graphVars, callVars, localVars, result, histVars>>
  /\ UNCHANGED swapVars
  /\ UNCHANGED <<sorVars, joinVars>>

ForExit ==
  /\ pc = "for"
  /\ ~(idx < maxPathsPerTokenPair)
  /\ pc' = "roundEnd"
  /\ UNCHANGED <<graphVars, callVars, localVars, result, histVars>>
  /\ UNCHANGED swapVars
  /\ UNCHANGED <<sorVars, joinVars>>

\* the path one iteration of the inner while finds
FoundPath ==
  traverseGraphAndFindUniquePath(tokenIn, tokenIn, tokenOut, <<tokenIn>>, idx,
                                 config, seenPoolAddresses, selectedPathIds)

\* variant: a found path takes its edges out of the graph
Search_ConsumeEdges ==
  /\ pc = "search"
  /\ LET path == FoundPath
     IN IF path # Null
        THEN /\ seenPoolAddresses' =
                  seenPoolAddresses \o [k \in 1..Len(path) |-> path[k].poolAddress]
             /\ paths' = Append(paths, path)
             /\ selectedPathIds' = Append(selectedPathIds, getIdForPath(path))
             /\ pathEpoch' = Append(pathEpoch, Len(relaxLog))
             /\ graph' = SelectSeq(graph, LAMBDA e : ~InSeq(e, path))
             /\ pc' = "search"
             /\ UNCHANGED <<idx, relaxLog>>
        ELSE /\ idx' = idx + 1
             /\ pc' = "for"
             /\ UNCHANGED <<graph, paths, selectedPathIds, seenPoolAddresses, histVars>>
  /\ UNCHANGED <<poolAddressMap, graphIsInitialized, maxPathsPerTokenPair, callVars, result>>
  /\ UNCHANGED swapVars
  /\ UNCHANGED <<sorVars, joinVars>>

\* one iteration of the inner while: a found path is recorded and the loop
\* goes on, no path ends the loop and idx++
Search ==
  /\ pc = "search"
  /\ LET path == FoundPath
     IN IF path # Null
        THEN /\ seenPoolAddresses' =
                  seenPoolAddresses \o [k \in 1..Len(path) |-> path[k].poolAddress]
             /\ paths' = Append(paths, path)
             /\ selectedPathIds' = Append(selectedPathIds, getIdForPath(path))
             /\ pathEpoch' = Append(pathEpoch, Len(relaxLog))
             /\ pc' = "search"
             /\ UNCHANGED <<idx, relaxLog>>
        ELSE /\ idx' = idx + 1
             /\ pc' = "for"
             /\ UNCHANGED <<paths, selectedPathIds, seenPoolAddresses, histVars>>
  /\ UNCHANGED <<graphVars, callVars, result>>
  /\ UNCHANGED swapVars
  /\ UNCHANGED <<sorVars, joinVars>>

\* seenPoolAddresses after the relaxation at the end of a round
Relaxed(seen) ==
  LET volatilePoolAddresses == filterVolatilePools(seen)
  IN IF Len(volatilePoolAddresses) > 0 /\ Len(volatilePoolAddresses) < Len(seen)
     THEN volatilePoolAddresses
     ELSE <<>>

\* end of a round with too few paths and pools seen: relax and loop
Relax ==
  /\ pc = "roundEnd"
  /\ Len(paths) < config.approxPathsToReturn /\ Len(seenPoolAddresses) > 0
  /\ seenPoolAddresses' = Relaxed(seenPoolAddresses)
  /\ relaxLog' = Append(relaxLog, [before |-> seenPoolAddresses,
                                   after |-> Relaxed(seenPoolAddresses)])
  /\ pc' = "while"
  /\ UNCHANGED <<graphVars, callVars, paths, selectedPathIds, idx, result, pathEpoch>>
  /\ UNCHANGED swapVars
  /\ UNCHANGED <<sorVars, joinVars>>

\* variant: with too few paths the loop goes on though no pool is seen
Break_Retry ==
  /\ pc = "roundEnd"
  /\ ~(Len(paths) < config.approxPathsToReturn /\ Len(seenPoolAddresses) > 0)
  /\ pc' = IF Len(paths) < config.approxPathsToReturn THEN "while" ELSE "return"
  /\ UNCHANGED <<graphVars, callVars, localVars, result, histVars>>
  /\ UNCHANGED swapVars
  /\ UNCHANGED <<sorVars, joinVars>>

\* variant: the loop is also left when a round after a relaxation found no path
Break_OnNoProgress ==
  /\ pc = "roundEnd"
  /\ \/ ~(Len(paths) < config.approxPathsToReturn /\ Len(seenPoolAddresses) > 0)
     \/ /\ Len(relaxLog) > 0
        /\ \A k \in 1..Len(pathEpoch) : pathEpoch[k] # Len(relaxLog)
  /\ pc' = "return"
  /\ UNCHANGED <<graphVars, callVars, localVars, result, histVars>>
  /\ UNCHANGED swapVars
  /\ UNCHANGED <<sorVars, joinVars>>

\* end of a round with enough paths or nothing seen: break
Break ==
  /\ pc = "roundEnd"
  /\ ~(Len(paths) < config.approxPathsToReturn /\ Len(seenPoolAddresses) > 0)
  /\ pc' = "return"
  /\ UNCHANGED <<graphVars, callVars, localVars, result, histVars>>
  /\ UNCHANGED swapVars
  /\ UNCHANGED <<sorVars, joinVars>>

\* return paths.map(...)
Return ==
  /\ pc = "return"
  /\ result' = [k \in 1..Len(paths) |-> ToPath(paths[k])]
  /\ pc' = "done"
  /\ UNCHANGED <<graphVars, callVars, localVars, histVars>>
  /\ UNCHANGED swapVars
  /\ UNCHANGED <<sorVars, joinVars>>

\* the caller is through with the returned paths; the graph instance stays
Discard ==
  /\ pc = "done"
  /\ ForgetCall
  /\ pc' = "idle"
  /\ UNCHANGED graphVars
  /\ UNCHANGED swapVars
  /\ UNCHANGED <<sorVars, joinVars>>

Next ==
  \/ \E pools \in Snapshots, maxPaths \in 1..MaxPairCap : buildGraph(pools, maxPaths)
  \/ \E tIn \in Tokens, tOut \in Tokens, cfg \in Configs : FindPathsAbsent(tIn, tOut, cfg)
  \/ \E tIn \in Tokens, tOut \in Tokens, cfg \in Configs : FindPathsStart(tIn, tOut, cfg)
  \/ WhileEnter
  \/ WhileExit
  \/ ForEnter
  \/ ForExit
  \/ Search
  \/ Relax
  \/ Break
  \/ Return
  \/ Discard

Spec == Init /\ [][Next]_vars

\* builds of one PathGraph instance, some of them failing
BuildNext ==
  \/ \E pools \in Snapshots, maxPaths \in 1..MaxPairCap : buildGraph(pools, maxPaths)
  \/ \E pools \in Snapshots, maxPaths \in 1..MaxPairCap : buildGraphThrows(pools, maxPaths)

BuildSpec == Init /\ [][BuildNext]_vars

\* the steps of a running call
CallStep ==
  WhileEnter \/ WhileExit \/ ForEnter \/ ForExit \/ Search \/ Relax \/ Break \/ Return

\* the call is synchronous and runs on to its return: weak fairness of its
\* steps, WF_vars(CallStep), written out with the steps' enabling condition,
\* which is that a call is running
FairSpec == Spec /\ ([]<>(pc \in {"idle", "done"}) \/ []<><<CallStep>>_vars)

\* ------------------------------------------------------------ swap entities
GivenIn == "GivenIn"
GivenOut == "GivenOut"
SwapKinds == {GivenIn, GivenOut}

TokenAmount(token, amount) == [token |-> token, amount |-> amount]

\* the raw amounts callers trade
AmountValues == {10 * k : k \in 0..MaxUnits}

\* the Path values handed to pricing: paths over the pools of the universe
SwapPaths ==
  << [tokens |-> <<"A", "B">>, pools |-> <<PoolUniverse[1]>>],
     [tokens |-> <<"A", "B">>, pools |-> <<PoolUniverse[2]>>],
     [tokens |-> <<"A", "B", "C">>, pools |-> <<PoolUniverse[1], PoolUniverse[3]>>],
     [tokens |-> <<"A", "B", "C">>, pools |-> <<PoolUniverse[2], PoolUniverse[3]>>],
     [tokens |-> <<"B", "C">>, pools |-> <<PoolUniverse[3]>>] >>

\* the pool's input-fixed quote: a constant-product curve over its liquidity
swapGivenIn(pool, tIn, tOut, amountIn) ==
  TokenAmount(tOut, (pool.liquidity * amountIn.amount) \div (pool.liquidity + amountIn.amount))

\* new PathWithAmount(tokens, pools, swapAmount)
PathWithAmount(tokens, pools, swapAmount) ==
  [tokens |-> tokens,
   pools |-> pools,
   swapAmount |-> swapAmount,
   swapKind |-> IF tokens[1] = swapAmount.token THEN GivenIn ELSE GivenOut]

\* the loop of outputAmount(): the pool calls made from hop i on, amounts[i]
\* being the amount handed to hop i
RECURSIVE QuoteCalls(_,_,_,_)
QuoteCalls(pwa, i, amount, calls) ==
  IF i > Len(pwa.pools) THEN calls
  ELSE LET out == swapGivenIn(pwa.pools[i], pwa.tokens[i], pwa.tokens[i + 1], amount)
       IN QuoteCalls(pwa, i + 1, out,
                     Append(calls, [fn |-> "swapGivenIn",
                                    pool |-> pwa.pools[i].id,
                                    tokenIn |-> pwa.tokens[i],
                                    tokenOut |-> pwa.tokens[i + 1],
                                    amount |-> amount,
                                    returned |-> out]))

\* variant: every hop is quoted with the path's swapAmount
RECURSIVE QuoteCalls_Unchained(_,_,_,_)
QuoteCalls_Unchained(pwa, i, amount, calls) ==
  IF i > Len(pwa.pools) THEN calls
  ELSE LET out == swapGivenIn(pwa.pools[i], pwa.tokens[i], pwa.tokens[i + 1], pwa.swapAmount)
       IN QuoteCalls_Unchained(pwa, i + 1, out,
                     Append(calls, [fn |-> "swapGivenIn",
                                    pool |-> pwa.pools[i].id,
                                    tokenIn |-> pwa.tokens[i],
                                    tokenOut |-> pwa.tokens[i + 1],
                                    amount |-> pwa.swapAmount,
                                    returned |-> out]))

\* variant: outputAmount() hands swapAmount to every hop
outputAmount_Unchained(pwa) ==
  IF pwa.swapKind = GivenIn
  THEN LET calls == QuoteCalls_Unchained(pwa, 1, pwa.swapAmount, <<>>)
       IN [calls |-> calls,
           value |-> IF calls = <<>> THEN pwa.swapAmount
                     ELSE calls[Len(calls)].returned]
  ELSE [calls |-> <<>>, value |-> pwa.swapAmount]

\* PathWithAmount.outputAmount(): the value it resolves to and the pool calls
\* it made
outputAmount(pwa) ==
  IF pwa.swapKind = GivenIn
  THEN LET calls == QuoteCalls(pwa, 1, pwa.swapAmount, <<>>)
       IN [calls |-> calls,
           value |-> IF calls = <<>> THEN pwa.swapAmount
                     ELSE calls[Len(calls)].returned]
  ELSE [calls |-> <<>>, value |-> pwa.swapAmount]

\* Array.prototype.indexOf, counted from 0
indexOf(s, x) == (CHOOSE i \in 1..Len(s) : s[i] = x /\ \A j \in 1..(i - 1) : s[j] # x) - 1

Reverse(s) == [i \in 1..Len(s) |-> s[Len(s) + 1 - i]]

IsError(v) == "error" \in DOMAIN v

\* the batch swap steps of one path of an input-fixed swap
StepsGivenIn(p, assets) ==
  [i \in 1..Len(p.path.pools) |->
     [poolId |-> p.path.pools[i].id,
      assetInIndex |-> indexOf(assets, p.path.tokens[i]),
      assetOutIndex |-> indexOf(assets, p.path.tokens[i + 1]),
      amount |-> IF i = 1 THEN p.inputAmount.amount ELSE 0]]

\* variant: the steps of an output-fixed swap are emitted in path order
StepsGivenOut_PathOrder(p, assets) ==
  [i \in 1..Len(p.path.pools) |->
     [poolId |-> p.path.pools[i].id,
      assetInIndex |-> indexOf(assets, p.path.tokens[i]),
      assetOutIndex |-> indexOf(assets, p.path.tokens[i + 1]),
      amount |-> IF i = 1 THEN p.outputAmount.amount ELSE 0]]

\* the batch swap steps of one path of an output-fixed swap: reverse order
StepsGivenOut(p, assets) ==
  LET reversedPools == Reverse(p.path.pools)
      reversedTokens == Reverse(p.path.tokens)
  IN [i \in 1..Len(reversedPools) |->
        [poolId |-> reversedPools[i].id,
         assetInIndex |-> indexOf(assets, reversedTokens[i + 1]),
         assetOutIndex |-> indexOf(assets, reversedTokens[i]),
         amount |-> IF i = 1 THEN p.outputAmount.amount ELSE 0]]

\* variant: the constructor does not reject an empty list of paths
SwapConstructor_NoEmptyCheck(swapPaths, swapKind, swapAmount) ==
  LET assets ==
        OrderedDistinct(Flatten([k \in 1..Len(swapPaths) |-> swapPaths[k].path.tokens]))
  IN [paths |-> swapPaths,
      swapKind |-> swapKind,
      isNativeSwap |-> FALSE,
      isBatchSwap |-> (Len(swapPaths) > 1
                       \/ (Len(swapPaths) = 1 /\ Len(swapPaths[1].path.pools) > 2)),
      assets |-> assets,
      swaps |-> Flatten([k \in 1..Len(swapPaths) |->
                           IF swapKind = GivenIn
                           THEN StepsGivenIn(swapPaths[k], assets)
                           ELSE StepsGivenOut(swapPaths[k], assets)])]

\* new Swap({ paths, swapKind, swapAmount }): the Swap, or the error thrown.
\* No token of the universe is native
SwapConstructor(swapPaths, swapKind, swapAmount) ==
  IF Len(swapPaths) = 0
  THEN [error |-> "Invalid swap: must contain at least 1 path."]
  ELSE LET assets ==
             OrderedDistinct(Flatten([k \in 1..Len(swapPaths) |-> swapPaths[k].path.tokens]))
       IN [paths |-> swapPaths,
           swapKind |-> swapKind,
           isNativeSwap |-> FALSE,
           isBatchSwap |-> (Len(swapPaths) > 1 \/ Len(swapPaths[1].path.pools) > 2),
           assets |-> assets,
           swaps |-> Flatten([k \in 1..Len(swapPaths) |->
                                IF swapKind = GivenIn
                                THEN StepsGivenIn(swapPaths[k], assets)
                                ELSE StepsGivenOut(swapPaths[k], assets)])]

\* variant: the per-path input and output amounts are taken the other way round
fromPaths_Crossed(fromPathsArg, swapKind, swapAmount) ==
  SwapConstructor([k \in 1..Len(fromPathsArg) |->
                     [path |-> fromPathsArg[k],
                      inputAmount |-> fromPathsArg[k].outputAmount,
                      outputAmount |-> fromPathsArg[k].inputAmount]],
                  swapKind, swapAmount)

\* Swap.fromPaths(fromPaths, swapKind, swapAmount)
fromPaths(fromPathsArg, swapKind, swapAmount) ==
  SwapConstructor([k \in 1..Len(fromPathsArg) |->
                     [path |-> fromPathsArg[k],
                      inputAmount |-> fromPathsArg[k].inputAmount,
                      outputAmount |-> fromPathsArg[k].outputAmount]],
                  swapKind, swapAmount)

\* amounts.reduce((a, b) => a.add(b)): the sum in the first amount's token
RECURSIVE SumAmounts(_)
SumAmounts(amounts) ==
  IF Len(amounts) = 1 THEN amounts[1]
  ELSE LET front == SumAmounts(SubSeq(amounts, 1, Len(amounts) - 1))
       IN TokenAmount(front.token, front.amount + amounts[Len(amounts)].amount)

\* variant: the input amounts are summed whatever their tokens
Swap_inputAmount_Unchecked(sw) == SumAmounts([k \in 1..Len(sw.paths) |-> sw.paths[k].inputAmount])

\* get Swap.inputAmount: the sum, or the error thrown
Swap_inputAmount(sw) ==
  IF ~(\A k \in 1..Len(sw.paths) : sw.paths[k].inputAmount.token = sw.paths[1].inputAmount.token)
  THEN [error |-> "Input amount can only be calculated if all paths have the same input token"]
  ELSE SumAmounts([k \in 1..Len(sw.paths) |-> sw.paths[k].inputAmount])

\* get Swap.outputAmount: the sum, or the error thrown
Swap_outputAmount(sw) ==
  IF ~(\A k \in 1..Len(sw.paths) : sw.paths[k].outputAmount.token = sw.paths[1].outputAmount.token)
  THEN [error |-> "Output amount can only be calculated if all paths have the same output token"]
  ELSE SumAmounts([k \in 1..Len(sw.paths) |-> sw.paths[k].outputAmount])

\* ------------------------------------------------------------ route optimizer
\* the candidate lists getCandidatePaths can hand over for a token pair: the
\* paths between the two tokens, any of them left out by the search limits
RECURSIVE SubSeqs(_)
SubSeqs(s) ==
  IF s = <<>> THEN {<<>>}
  ELSE LET rest == SubSeqs(Tail(s))
       IN rest \cup {<<Head(s)>> \o r : r \in rest}

getCandidatePaths(tIn, tOut) ==
  SubSeqs(SelectSeq(SwapPaths, LAMBDA p : p.tokens[1] = tIn /\ p.tokens[Len(p.tokens)] = tOut))

\* a candidate path priced at an amount on the fixed side
PriceAt(path, swapKind, raw) ==
  LET fixed == IF swapKind = GivenIn THEN path.tokens[1] ELSE path.tokens[Len(path.tokens)]
      pwa == PathWithAmount(path.tokens, path.pools, TokenAmount(fixed, raw))
      counterpart == outputAmount(pwa).value
  IN [tokens |-> pwa.tokens,
      pools |-> pwa.pools,
      swapAmount |-> pwa.swapAmount,
      swapKind |-> pwa.swapKind,
      inputAmount |-> IF swapKind = GivenIn THEN pwa.swapAmount ELSE counterpart,
      outputAmount |-> IF swapKind = GivenIn THEN counterpart ELSE pwa.swapAmount]

\* the marginal rate of the next increment on a path: output gained for
\* GivenIn, input saved for GivenOut
Marginal(path, swapKind, alloc, inc) ==
  LET now == PriceAt(path, swapKind, alloc)
      then == PriceAt(path, swapKind, alloc + inc)
  IN IF swapKind = GivenIn
     THEN then.outputAmount.amount - now.outputAmount.amount
     ELSE now.inputAmount.amount - then.inputAmount.amount

\* the path the next increment goes to: the best marginal rate, the first one
\* on a tie
BestPath(cands, swapKind, allocs, inc) ==
  CHOOSE i \in 1..Len(cands) :
    \A j \in 1..Len(cands) :
       LET mi == Marginal(cands[i], swapKind, allocs[i], inc)
           mj == Marginal(cands[j], swapKind, allocs[j], inc)
       IN mi > mj \/ (mi = mj /\ i <= j)

\* the greedy allocation: each increment goes to the best path; the last
\* increment of the budget takes what remains
RECURSIVE Allocate(_,_,_,_,_,_)
Allocate(cands, swapKind, allocs, remaining, step, left) ==
  IF remaining = 0 \/ left = 0 THEN allocs
  ELSE LET inc == IF left = 1 \/ remaining < step THEN remaining ELSE step
       IN CHOOSE after \in
            {Allocate(cands, swapKind, [allocs EXCEPT ![best] = @ + inc],
                      remaining - inc, step, left - 1) :
               best \in {BestPath(cands, swapKind, allocs, inc)}} : TRUE

\* the allocation of the whole amount: one candidate takes it all
Allocation(cands, swapKind, swapAmount) ==
  IF Len(cands) = 1 THEN <<swapAmount.amount>>
  ELSE Allocate(cands, swapKind, [k \in 1..Len(cands) |-> 0], swapAmount.amount,
                IF swapAmount.amount < MaxIncrements THEN 1
                ELSE swapAmount.amount \div MaxIncrements,
                MaxIncrements)

\* the candidates with a positive allocation, priced at it
Allocated(cands, swapKind, allocs) ==
  LET kept == SelectSeq([k \in 1..Len(cands) |-> k], LAMBDA k : allocs[k] > 0)
  IN [k \in 1..Len(kept) |-> PriceAt(cands[kept[k]], swapKind, allocs[kept[k]])]

\* Router.getBestPaths(candidatePaths, swapKind, swapAmount): the Swap over
\* the paths with a positive allocation, or the error
getBestPaths(cands, swapKind, swapAmount) ==
  IF Len(cands) = 0 THEN [error |-> "NoRouteFound"]
  ELSE IF swapAmount.amount <= 0 THEN [error |-> "InvalidAmount"]
  ELSE CHOOSE route \in
         {fromPaths(priced, swapKind, swapAmount) :
            priced \in {Allocated(cands, swapKind, allocs) :
                          allocs \in {Allocation(cands, swapKind, swapAmount)}}} : TRUE

\* ------------------------------------------------------------ swap inputs
\* the priced paths callers hand to Swap.fromPaths
PricedPaths ==
  {PriceAt(SwapPaths[i], k, a) : i \in 1..Len(SwapPaths), k \in SwapKinds,
                                a \in {10, 10 * MaxUnits}}

RouteInputs == UNION {[1..n -> PricedPaths] : n \in 0..MaxRoutePaths}

\* ------------------------------------------------------------ swap actions
\* const p = new PathWithAmount(tokens, pools, swapAmount); await p.outputAmount()
PricePath(path, swapAmount) ==
  /\ sorPc = "idle"
  /\ LET pwa == PathWithAmount(path.tokens, path.pools, swapAmount)
         out == outputAmount(pwa)
     IN pricedPath' = [path |-> pwa, calls |-> out.calls, value |-> out.value]
  /\ sorPc' = "priced"
  /\ UNCHANGED <<swap, request, swapInfo, amountRead>>
  /\ UNCHANGED searchVars
  /\ UNCHANGED <<sorVars, joinVars>>

\* await Swap.fromPaths(paths, swapKind, swapAmount)
SwapFromPaths(fromPathsArg, swapKind, swapAmount) ==
  /\ sorPc = "idle"
  /\ swap' = fromPaths(fromPathsArg, swapKind, swapAmount)
  /\ sorPc' = "built"
  /\ UNCHANGED <<pricedPath, request, swapInfo, amountRead>>
  /\ UNCHANGED searchVars
  /\ UNCHANGED <<sorVars, joinVars>>

\* await sor.getSwaps(tokenIn, tokenOut, swapKind, swapAmount), the router
\* having found the candidate paths cands
getSwaps(tIn, tOut, swapKind, swapAmount, cands) ==
  /\ sorPc = "idle"
  /\ request' = [tokenIn |-> tIn, tokenOut |-> tOut, swapKind |-> swapKind,
                 swapAmount |-> swapAmount]
  /\ \E bestPaths \in {getBestPaths(cands, swapKind, swapAmount)} :
        IF IsError(bestPaths)
        THEN /\ swapInfo' = bestPaths
             /\ swap' = swap
        ELSE /\ swapInfo' = [quote |-> swapAmount, swap |-> bestPaths,
                             paths |-> bestPaths.paths]
             /\ swap' = bestPaths
  /\ sorPc' = "quoted"
  /\ UNCHANGED <<pricedPath, amountRead>>
  /\ UNCHANGED searchVars
  /\ UNCHANGED <<sorVars, joinVars>>

\* swap.inputAmount
ReadInputAmount ==
  /\ sorPc \in {"built", "quoted"}
  /\ swap # <<>> /\ ~IsError(swap)
  /\ amountRead' = [getter |-> "inputAmount", outcome |-> Swap_inputAmount(swap)]
  /\ sorPc' = "read"
  /\ UNCHANGED <<pricedPath, swap, request, swapInfo>>
  /\ UNCHANGED searchVars
  /\ UNCHANGED <<sorVars, joinVars>>

\* swap.outputAmount
ReadOutputAmount ==
  /\ sorPc \in {"built", "quoted"}
  /\ swap # <<>> /\ ~IsError(swap)
  /\ amountRead' = [getter |-> "outputAmount", outcome |-> Swap_outputAmount(swap)]
  /\ sorPc' = "read"
  /\ UNCHANGED <<pricedPath, swap, request, swapInfo>>
  /\ UNCHANGED searchVars
  /\ UNCHANGED <<sorVars, joinVars>>

\* the caller drops what it holds before its next request
SwapDiscard ==
  /\ sorPc # "idle"
  /\ sorPc' = "idle"
  /\ pricedPath' = <<>>
  /\ swap' = <<>>
  /\ request' = <<>>
  /\ swapInfo' = <<>>
  /\ amountRead' = <<>>
  /\ UNCHANGED searchVars
  /\ UNCHANGED <<sorVars, joinVars>>

SwapNext ==
  \/ /\ sorPc = "idle"
     /\ \E i \in 1..Len(SwapPaths), t \in Tokens, a \in AmountValues :
           PricePath(SwapPaths[i], TokenAmount(t, a))
  \/ /\ sorPc = "idle"
     /\ \E r \in RouteInputs, k \in SwapKinds :
           SwapFromPaths(r, k, TokenAmount("A", 10))
  \/ /\ sorPc = "idle"
     /\ \E tIn \in Tokens, tOut \in Tokens, k \in SwapKinds, a \in AmountValues :
           \E cands \in getCandidatePaths(tIn, tOut) :
              getSwaps(tIn, tOut, k, TokenAmount(IF k = GivenIn THEN tIn ELSE tOut, a), cands)
  \/ ReadInputAmount
  \/ ReadOutputAmount
  \/ SwapDiscard

SwapSpec == Init /\ [][SwapNext]_vars

\* ------------------------------------------------------------ orchestrator
\* the inner while of one rank run to its end: the locals after it
RECURSIVE InnerWhile(_,_,_,_,_)
InnerWhile(tIn, tOut, cfg, rank, st) ==
  CHOOSE after \in
    {IF path = Null THEN st
     ELSE InnerWhile(tIn, tOut, cfg, rank,
            [paths |-> Append(st.paths, path),
             selectedPathIds |-> Append(st.selectedPathIds, getIdForPath(path)),
             seenPoolAddresses |->
               st.seenPoolAddresses \o [k \in 1..Len(path) |-> path[k].poolAddress]]) :
       path \in {traverseGraphAndFindUniquePath(tIn, tIn, tOut, <<tIn>>, rank, cfg,
                                                st.seenPoolAddresses, st.selectedPathIds)}} :
    TRUE

\* the for loop over the ranks from rank on
RECURSIVE ForRanks(_,_,_,_,_)
ForRanks(tIn, tOut, cfg, rank, st) ==
  IF ~(rank < maxPathsPerTokenPair) THEN st
  ELSE CHOOSE after \in
         {ForRanks(tIn, tOut, cfg, rank + 1, next) :
            next \in {InnerWhile(tIn, tOut, cfg, rank, st)}} : TRUE

\* the outer while: rounds and relaxations up to the break
RECURSIVE Rounds(_,_,_,_)
Rounds(tIn, tOut, cfg, st) ==
  IF ~(Len(st.paths) < cfg.approxPathsToReturn) THEN st.paths
  ELSE CHOOSE found \in
         {IF Len(next.paths) < cfg.approxPathsToReturn /\ Len(next.seenPoolAddresses) > 0
          THEN Rounds(tIn, tOut, cfg,
                      [next EXCEPT !.seenPoolAddresses = Relaxed(@)])
          ELSE next.paths :
            next \in {ForRanks(tIn, tOut, cfg, 0, st)}} : TRUE

\* traverseGraphAndFindBestPaths run from its entry to its return
traverseGraphAndFindBestPaths(tIn, tOut, cfg) ==
  IF ~(hasNode(tIn) /\ hasNode(tOut)) THEN <<>>
  ELSE LET found == Rounds(tIn, tOut, cfg,
                           [paths |-> <<>>, selectedPathIds |-> <<>>,
                            seenPoolAddresses |-> <<>>])
       IN [k \in 1..Len(found) |-> ToPath(found[k])]

\* the token pairs requested of the router
SorPairs == {<<"A", "C">>, <<"C", "A">>}

\* the snapshots poolProvider.getPools() resolves to
SorSnapshots == {pools \in Snapshots : Len(pools) = MaxPools}

\* variant: the router builds its path graph for the first request only
RouterGraph_BuildOnce(pools) ==
  IF graphIsInitialized
  THEN [graph |-> graph, poolAddressMap |-> poolAddressMap,
        maxPathsPerTokenPair |-> maxPathsPerTokenPair]
  ELSE [graph |-> GraphEdges(pools, DefaultMaxPathsPerTokenPair),
        poolAddressMap |-> keyBy(pools),
        maxPathsPerTokenPair |-> DefaultMaxPathsPerTokenPair]

\* Router.getCandidatePaths: the router's one path graph is rebuilt from the
\* request's pools before the search
RouterGraph(pools) ==
  [graph |-> GraphEdges(pools, DefaultMaxPathsPerTokenPair),
   poolAddressMap |-> keyBy(pools),
   maxPathsPerTokenPair |-> DefaultMaxPathsPerTokenPair]

\* getSwaps up to its first await: poolProvider.getPools() is pending.
\* A callback runs to its next await before another one is scheduled, so no
\* request moves while a search is between its entry and its return.
SorCall(i, tIn, tOut, swapKind, swapAmount) ==
  /\ reqs[i].pc = "idle"
  /\ pc = "idle"
  /\ reqs' = [reqs EXCEPT ![i] = [NoRequest EXCEPT !.pc = "poolProvider",
                                                   !.tokenIn = tIn,
                                                   !.tokenOut = tOut,
                                                   !.swapKind = swapKind,
                                                   !.swapAmount = swapAmount]]
  /\ UNCHANGED <<searchVars, swapVars, joinVars>>

\* getPools() resolved: getCandidatePaths rebuilds the router's path graph
\* and enters the search, in the same synchronous stretch
SorPoolsFetched(i, pools) ==
  /\ reqs[i].pc = "poolProvider"
  /\ pc = "idle"
  /\ \E built \in {RouterGraph(pools)} :
        /\ graph' = built.graph
        /\ poolAddressMap' = built.poolAddressMap
        /\ maxPathsPerTokenPair' = built.maxPathsPerTokenPair
  /\ graphIsInitialized' = TRUE
  /\ tokenIn' = reqs[i].tokenIn /\ tokenOut' = reqs[i].tokenOut
  /\ config' = DefaultConfig
  /\ paths' = <<>> /\ selectedPathIds' = <<>> /\ seenPoolAddresses' = <<>>
  /\ idx' = 0
  /\ relaxLog' = <<>> /\ pathEpoch' = <<>>
  /\ \E tIn \in {reqs[i].tokenIn}, tOut \in {reqs[i].tokenOut} :
        IF (hasNode(tIn) /\ hasNode(tOut))'
        THEN pc' = "while" /\ UNCHANGED result
        ELSE pc' = "done" /\ result' = <<>>
  /\ reqs' = [reqs EXCEPT ![i].pc = "getCandidatePaths", ![i].pools = pools]
  /\ UNCHANGED <<swapVars, joinVars>>

\* getCandidatePaths returned: the candidate paths are the call's own value,
\* and getBestPaths is pending
SorCandidatePaths(i) ==
  /\ reqs[i].pc = "getCandidatePaths"
  /\ pc = "done"
  /\ reqs' = [reqs EXCEPT ![i].pc = "bestPaths",
                          ![i].observed = [graph |-> graph,
                                           poolAddressMap |-> poolAddressMap],
                          ![i].candidatePaths = result]
  /\ ForgetCall
  /\ pc' = "idle"
  /\ UNCHANGED <<graphVars, swapVars, joinVars>>

\* getBestPaths resolved: swapInfo is returned, or its error is thrown on
SorBestPaths(i) ==
  /\ reqs[i].pc = "bestPaths"
  /\ pc = "idle"
  /\ \E bestPaths \in {getBestPaths(reqs[i].candidatePaths, reqs[i].swapKind,
                                    reqs[i].swapAmount)} :
        reqs' = [reqs EXCEPT ![i].pc = "returned",
                             ![i].swapInfo =
                                IF IsError(bestPaths) THEN bestPaths
                                ELSE [quote |-> reqs[i].swapAmount, swap |-> bestPaths,
                                      paths |-> bestPaths.paths]]
  /\ UNCHANGED <<searchVars, swapVars, joinVars>>

\* the caller drops the settled call
SorForget(i) ==
  /\ reqs[i].pc = "returned"
  /\ pc = "idle"
  /\ reqs' = [reqs EXCEPT ![i] = NoRequest]
  /\ UNCHANGED <<searchVars, swapVars, joinVars>>

\* the steps of the calls; under the default config the search leaves its
\* outer while through break, its condition (approxPathsToReturn = 5) being
\* false at no test
SorNext ==
  \/ \E i \in Requests, pair \in SorPairs :
        SorCall(i, pair[1], pair[2], GivenIn, TokenAmount(pair[1], 10 * MaxUnits))
  \/ \E i \in Requests, pools \in SorSnapshots : SorPoolsFetched(i, pools)
  \/ WhileEnter
  \/ ForEnter
  \/ ForExit
  \/ Search
  \/ Relax
  \/ Break
  \/ Return
  \/ \E i \in Requests : SorCandidatePaths(i)
  \/ \E i \in Requests : SorBestPaths(i)
  \/ \E i \in Requests : SorForget(i)

SorSpec == Init /\ [][SorNext]_vars

\* ------------------------------------------------------------ weighted join
AddLiquidityKinds == {"Init", "Unbalanced", "SingleAsset", "Proportional"}

\* Slippage.fromPercentage(p), p in percent
SlippagePercents == {1, 5}

\* slippage.applyTo(amount): the amount raised by the percentage, rounded down
applyTo(slippage, amount) == (amount * (100 + slippage)) \div 100

\* slippage.removeFrom(amount): the amount the percentage was applied to,
\* rounded down
removeFrom(slippage, amount) == (amount * 100) \div (100 + slippage)

\* raw amounts of a join: bpt and token amounts
JoinAmounts == {100 * k : k \in 0..MaxUnits}

\* tokenInIndex: undefined
NoIndex == -1

\* the WeightedJoinCall values handed to buildCall, over a pool of two tokens
WeightedJoinCalls ==
  [addLiquidityKind : AddLiquidityKinds,
   bptOut : {TokenAmount("BPT", a) : a \in JoinAmounts},
   amountsIn : {<<TokenAmount("A", a), TokenAmount("B", b)>> :
                  a \in JoinAmounts, b \in JoinAmounts},
   slippage : SlippagePercents,
   tokenInIndex : {NoIndex, 0, 1}]

\* variant: the slippage is taken on both sides for every kind
getAmountsCall_BothSides(input) ==
  [minimumBpt |-> removeFrom(input.slippage, input.bptOut.amount),
   maxAmountsIn |-> [k \in 1..Len(input.amountsIn) |->
                       applyTo(input.slippage, input.amountsIn[k].amount)],
   tokenInIndex |-> input.tokenInIndex]

\* WeightedJoin.getAmountsCall
getAmountsCall(input) ==
  IF input.addLiquidityKind \in {"Init", "Unbalanced"}
  THEN [minimumBpt |-> removeFrom(input.slippage, input.bptOut.amount),
        maxAmountsIn |-> [k \in 1..Len(input.amountsIn) |-> input.amountsIn[k].amount],
        tokenInIndex |-> input.tokenInIndex]
  ELSE [minimumBpt |-> input.bptOut.amount,
        maxAmountsIn |-> [k \in 1..Len(input.amountsIn) |->
                            applyTo(input.slippage, input.amountsIn[k].amount)],
        tokenInIndex |-> input.tokenInIndex]

\* WeightedJoin.encodeUserData: the values encoded for the kind, or the throw
encodeUserData(kind, amounts) ==
  CASE kind = "Init" -> [fn |-> "joinInit", args |-> <<amounts.maxAmountsIn>>]
    [] kind = "Unbalanced" -> [fn |-> "joinUnbalanced",
                               args |-> <<amounts.maxAmountsIn, amounts.minimumBpt>>]
    [] kind = "SingleAsset" ->
         IF amounts.tokenInIndex = NoIndex THEN [error |-> "No Index"]
         ELSE [fn |-> "joinSingleAsset",
               args |-> <<amounts.minimumBpt, amounts.tokenInIndex>>]
    [] kind = "Proportional" -> [fn |-> "joinProportional", args |-> <<amounts.minimumBpt>>]

\* WeightedJoin.buildCall(input): the JoinBuildOutput, or the throw
buildCall(input) ==
  /\ joinCall = <<>>
  /\ joinCall' =
       LET amounts == getAmountsCall(input)
           userData == encodeUserData(input.addLiquidityKind, amounts)
       IN IF IsError(userData) THEN [input |-> input, error |-> userData.error]
          ELSE [input |-> input,
                userData |-> userData,
                value |-> 0,
                minBptOut |-> amounts.minimumBpt,
                maxAmountsIn |-> amounts.maxAmountsIn]
  /\ UNCHANGED <<searchVars, swapVars, sorVars>>

\* the caller is through with the built call
JoinDiscard ==
  /\ joinCall # <<>>
  /\ joinCall' = <<>>
  /\ UNCHANGED <<searchVars, swapVars, sorVars>>

JoinNext ==
  \/ joinCall = <<>> /\ \E input \in WeightedJoinCalls : buildCall(input)
  \/ JoinDiscard

JoinSpec == Init /\ [][JoinNext]_vars

\* ------------------------------------------------------- returned paths
Returned == pc = "done"

\* the (pool, tokenIn, tokenOut) hops of a returned Path
HopsOf(p) ==
  [k \in 1..Len(p.pools) |-> <<p.pools[k].id, p.tokens[k], p.tokens[k + 1]>>]

NoRepeat(s) == \A i, j \in 1..Len(s) : i # j => s[i] # s[j]

IsPoolAddress(t) == t \in DOMAIN poolAddressMap

\* some token of the path, endpoints included, is the address of a pool
IsBoosted(p) == \E k \in 1..Len(p.tokens) : IsPoolAddress(p.tokens[k])

\* the intermediate tokens of a path that are not pool addresses
StandardHops(p) ==
  {k \in 2..(Len(p.tokens) - 1) : ~IsPoolAddress(p.tokens[k])}

\* C1: every returned path contains no token twice and no pool twice
C1_NoTokenNoPoolTwice ==
  \A k \in 1..Len(result) :
     /\ NoRepeat(result[k].tokens)
     /\ NoRepeat([i \in 1..Len(result[k].pools) |-> result[k].pools[i].id])
     /\ NoRepeat([i \in 1..Len(result[k].pools) |-> result[k].pools[i].address])

\* a multi-hop path was returned from a graph in which one pool joins both of
\* its hops' token pairs
C1_Witness ==
  /\ Returned
  /\ \E k \in 1..Len(result) :
        /\ Len(result[k].pools) >= 2
        /\ \E e1, e2 \in Range(graph) :
              /\ e1.poolId = e2.poolId
              /\ e1.tokenIn = result[k].tokens[1] /\ e1.tokenOut = result[k].tokens[2]
              /\ e2.tokenIn = result[k].tokens[2] /\ e2.tokenOut = result[k].tokens[3]

\* C2: every returned path starts at tokenIn, ends at tokenOut, has one pool
\* fewer than tokens, and each hop is an edge of its pool in the graph
C2_WellFormed ==
  \A k \in 1..Len(result) :
     LET p == result[k]
     IN /\ Len(p.tokens) >= 2
        /\ p.tokens[1] = tokenIn
        /\ p.tokens[Len(p.tokens)] = tokenOut
        /\ Len(p.pools) = Len(p.tokens) - 1
        /\ \A i \in 1..Len(p.pools) :
              /\ \E e \in Range(graph) :
                    /\ e.poolAddress = p.pools[i].address
                    /\ e.poolId = p.pools[i].id
                    /\ e.tokenIn = p.tokens[i]
                    /\ e.tokenOut = p.tokens[i + 1]
              /\ InSeq(p.tokens[i], p.pools[i].tokens)
              /\ InSeq(p.tokens[i + 1], p.pools[i].tokens)

\* a call returned both a one-hop and a three-hop path
C2_Witness ==
  /\ Returned
  /\ \E k \in 1..Len(result) : Len(result[k].tokens) = 2
  /\ \E k \in 1..Len(result) : Len(result[k].tokens) = 4

\* the edges the graph holds for an ordered token pair
PairEdges(a, b) == {k \in 1..Len(graph) : graph[k].tokenIn = a /\ graph[k].tokenOut = b}

SnapshotPools == {poolAddressMap[a] : a \in DOMAIN poolAddressMap}

\* C3: after buildGraph at most maxPathsPerTokenPair edges of pools that are
\* not phantom-bearing per ordered token pair, and an edge for every ordered
\* pair of member tokens of every phantom-bearing pool
C3_PairCapAndPhantom ==
  graphIsInitialized =>
    /\ \A a, b \in Tokens :
          Cardinality({k \in PairEdges(a, b) :
                         ~IsPhantomBearing(poolAddressMap[graph[k].poolAddress])})
            <= maxPathsPerTokenPair
    /\ \A pool \in SnapshotPools :
          IsPhantomBearing(pool) =>
            \A i, j \in 1..Len(pool.tokens) :
               i # j =>
                 \E k \in PairEdges(pool.tokens[i], pool.tokens[j]) :
                    graph[k].poolAddress = pool.address

\* a graph built with cap 1 that pruned a plain pool's pair and kept the pair
\* of a phantom-bearing pool ranked below the cap
C3_Witness ==
  /\ graphIsInitialized
  /\ maxPathsPerTokenPair = 1
  /\ \E a, b \in Tokens :
        /\ \E k \in PairEdges(a, b) :
              /\ IsPhantomBearing(poolAddressMap[graph[k].poolAddress])
              /\ \E m \in PairEdges(a, b) : m < k
        /\ \E pool \in SnapshotPools :
              /\ InSeq(a, pool.tokens) /\ InSeq(b, pool.tokens)
              /\ \A k \in PairEdges(a, b) : graph[k].poolAddress # pool.address

\* C4: no two returned paths have the same sequence of (pool, tokenIn,
\* tokenOut) hops
C4_NoDuplicatePath ==
  \A i, j \in 1..Len(result) : i # j => HopsOf(result[i]) # HopsOf(result[j])

\* paths were returned of which one was accepted after a relaxation
C4_Witness ==
  /\ Returned
  /\ Len(result) >= 2
  /\ \E k \in 1..Len(pathEpoch) : pathEpoch[k] >= 1

\* C5: in every returned path that is boosted, the intermediate tokens that
\* are not pool addresses number at most maxNonBoostedHopTokensInBoostedPath,
\* also when tokenOut is the only pool address of the path
C5_BoostedHopBudget ==
  \A k \in 1..Len(result) :
     IsBoosted(result[k]) =>
       Cardinality(StandardHops(result[k]))
         <= config.maxNonBoostedHopTokensInBoostedPath

\* C6: no returned path without a pool-address token has more than
\* maxNonBoostedPathDepth tokens
C6_NonBoostedDepth ==
  \A k \in 1..Len(result) :
     ~IsBoosted(result[k]) =>
       Len(result[k].tokens) <= config.maxNonBoostedPathDepth

\* a multi-hop path without any pool-address token was returned at the limit
C6_Witness ==
  /\ Returned
  /\ \E k \in 1..Len(result) :
        /\ ~IsBoosted(result[k])
        /\ Len(result[k].tokens) = 3
        /\ config.maxNonBoostedPathDepth = 3

\* C7: every returned path has at most maxDepth tokens
C7_MaxDepth ==
  \A k \in 1..Len(result) : Len(result[k].tokens) <= config.maxDepth

\* the pools of the k-th accepted path
PathPools(k) == {paths[k][i].poolAddress : i \in 1..Len(paths[k])}

\* C8 (step): a path is accepted only when none of its pools is seen, and
\* accepting it adds all its pools to the seen pools
C8_AcceptStep ==
  (pc = "search" /\ Len(paths') = Len(paths) + 1) =>
     LET accepted == paths'[Len(paths')]
         pools == {accepted[i].poolAddress : i \in 1..Len(accepted)}
     IN /\ pools \cap Range(seenPoolAddresses) = {}
        /\ Range(seenPoolAddresses') = Range(seenPoolAddresses) \cup pools

\* C8 (state): the paths accepted between two relaxations are pairwise
\* pool-disjoint, and so are all paths when no relaxation was performed
C8_DisjointInEpoch ==
  \A i, j \in 1..Len(paths) :
     (i # j /\ pathEpoch[i] = pathEpoch[j]) => PathPools(i) \cap PathPools(j) = {}

\* C8: paths are accepted against the seen pools and extend them, hence paths
\* of one epoch share no pool
C8_SeenPools == []C8_DisjointInEpoch /\ [][C8_AcceptStep]_vars

\* a call returned without any relaxation two paths, one of several hops
C8_Witness ==
  /\ Returned
  /\ Len(paths) >= 2
  /\ \E i, j \in 1..Len(paths) : i # j /\ pathEpoch[i] = pathEpoch[j]
  /\ relaxLog = <<>>
  /\ \E k \in 1..Len(paths) : Len(paths[k]) >= 2

IsPlain(a) == poolAddressMap[a].poolType = "Weighted"

\* C9 as stated: a relaxation with a plain pool among the seen pools removes
\* exactly the plain pools and leaves the others
C9_RemovesPlain ==
  \A k \in 1..Len(relaxLog) :
     (\E i \in 1..Len(relaxLog[k].before) : IsPlain(relaxLog[k].before[i])) =>
        relaxLog[k].after = SelectSeq(relaxLog[k].before, LAMBDA a : ~IsPlain(a))

\* C9 amended: a relaxation of seen pools that mix plain and other pools
\* keeps exactly the plain pools; any other relaxation empties the seen pools
C9_KeepsPlain ==
  \A k \in 1..Len(relaxLog) :
     LET before == relaxLog[k].before
         mixed == /\ \E i \in 1..Len(before) : IsPlain(before[i])
                  /\ \E i \in 1..Len(before) : ~IsPlain(before[i])
     IN /\ before # <<>>
        /\ mixed => relaxLog[k].after = SelectSeq(before, LAMBDA a : IsPlain(a))
        /\ ~mixed => relaxLog[k].after = <<>>

\* a relaxation of mixed seen pools took place and the retry accepted a path
\* through a pool the relaxation had released
C9_Witness ==
  \E k \in 1..Len(relaxLog) :
     /\ \E i \in 1..Len(relaxLog[k].before) : IsPlain(relaxLog[k].before[i])
     /\ \E i \in 1..Len(relaxLog[k].before) : ~IsPlain(relaxLog[k].before[i])
     /\ \E m \in 1..Len(paths) :
           /\ pathEpoch[m] = k
           /\ PathPools(m) \cap Range(relaxLog[k].before) # {}

\* C10 as stated: the seen pools are relaxed at most once in a call
C10_RelaxedOnce == Len(relaxLog) <= 1

\* the relaxations done since the last path was accepted
RelaxedSinceAccept ==
  Len(relaxLog) - (IF pathEpoch = <<>> THEN 0 ELSE pathEpoch[Len(pathEpoch)])

\* C10 amended: at most two relaxations in a row without a new path, and the
\* loop is left only with enough paths or with no pool seen
C10_RelaxBounded ==
  /\ RelaxedSinceAccept <= 2
  /\ pc \in {"return", "done"} =>
        \/ Len(paths) >= config.approxPathsToReturn
        \/ seenPoolAddresses = <<>>

\* a call returned after more than one relaxation, the last two in a row
C10_Witness ==
  /\ Returned
  /\ Len(relaxLog) >= 3
  /\ RelaxedSinceAccept = 2
  /\ Len(paths) < config.approxPathsToReturn

\* C11: every call terminates: each inner loop of a rank ends, each round
\* ends and the call returns
C11_Terminates == (pc \notin {"idle", "done"}) ~> (pc = "done")

\* a call returned after several rounds over a graph with parallel edges and
\* cycles
C11_Witness ==
  /\ Returned
  /\ Len(relaxLog) >= 2
  /\ Len(paths) >= 2
  /\ \E a, b \in Tokens : Cardinality(PairEdges(a, b)) >= 2

\* C13: with an allow-list every pool of every returned path is in the list
C13_AllowList ==
  config.poolIdsToInclude # NoAllowList =>
    \A k \in 1..Len(result) :
       \A i \in 1..Len(result[k].pools) :
          result[k].pools[i].id \in config.poolIdsToInclude

\* a call with an allow-list returned a path though the graph holds an edge
\* between the path's tokens of a pool outside the list
C13_Witness ==
  /\ Returned
  /\ config.poolIdsToInclude # NoAllowList
  /\ result # <<>>
  /\ \E k \in 1..Len(graph) :
        /\ graph[k].poolId \notin config.poolIdsToInclude
        /\ graph[k].tokenIn = result[1].tokens[1]
        /\ graph[k].tokenOut = result[1].tokens[2]

\* the tokens that are nodes of the graph
Nodes ==
  {graph[k].tokenIn : k \in 1..Len(graph)} \cup {graph[k].tokenOut : k \in 1..Len(graph)}

\* C14: a call with tokenIn or tokenOut missing from the graph returns at
\* once the empty list; it takes no search step and raises nothing
C14_AbsentToken ==
  (pc # "idle" /\ (tokenIn \notin Nodes \/ tokenOut \notin Nodes)) =>
     /\ pc = "done"
     /\ result = <<>>
     /\ paths = <<>>

\* a call on a built graph returned for a tokenIn that is no node while
\* tokenOut is one
C14_Witness ==
  /\ Returned
  /\ graphIsInitialized
  /\ tokenIn \notin Nodes
  /\ tokenOut \in Nodes
  /\ result = <<>>

\* the snapshot of the scenario: P1(A-B, 100), P2(A-B, 50), P3(B-C, 80)
ScenarioCall ==
  /\ DOMAIN poolAddressMap = {"p1", "p2", "p3"}
  /\ maxPathsPerTokenPair = 1
  /\ tokenIn = "A" /\ tokenOut = "C"
  /\ config = DefaultConfig

\* C15: in the scenario the call returns exactly the path A, B, C through
\* P1 and P3; the pruned edge of P2 is in no path
C15_Scenario ==
  (Returned /\ ScenarioCall) =>
     /\ Len(result) = 1
     /\ result[1].tokens = <<"A", "B", "C">>
     /\ result[1].pools = <<PoolUniverse[1], PoolUniverse[3]>>

\* the scenario's call returned after its relaxation and retry
C15_Witness ==
  /\ Returned
  /\ ScenarioCall
  /\ Len(relaxLog) >= 1
  /\ result # <<>>

\* getSwaps resolved to a swapInfo
Quoted == sorPc = "quoted" /\ ~IsError(swapInfo)

\* C16: the quote of getSwaps is the aggregate priced amount of the returned
\* route: its total output for GivenIn, its total input for GivenOut
C16_QuoteIsAggregate ==
  Quoted =>
    swapInfo.quote = IF request.swapKind = GivenIn
                     THEN Swap_outputAmount(swapInfo.swap)
                     ELSE Swap_inputAmount(swapInfo.swap)

\* the per-path amounts of a swap on its fixed side
FixedSide(sw) ==
  [k \in 1..Len(sw.paths) |->
     IF sw.swapKind = GivenIn THEN sw.paths[k].inputAmount ELSE sw.paths[k].outputAmount]

RECURSIVE SumRaw(_)
SumRaw(amounts) ==
  IF amounts = <<>> THEN 0 ELSE Head(amounts).amount + SumRaw(Tail(amounts))

C18_ChainedQuotes ==
  (sorPc = "priced" /\ pricedPath.path.swapKind = GivenIn) =>
    LET pwa == pricedPath.path
        calls == pricedPath.calls
    IN /\ Len(calls) = Len(pwa.pools)
       /\ \A i \in 1..Len(calls) :
             /\ calls[i].fn = "swapGivenIn"
             /\ calls[i].pool = pwa.pools[i].id
             /\ calls[i].tokenIn = pwa.tokens[i]
             /\ calls[i].tokenOut = pwa.tokens[i + 1]
             /\ calls[i].amount = IF i = 1 THEN pwa.swapAmount ELSE calls[i - 1].returned
       /\ pricedPath.value = calls[Len(calls)].returned

\* a GivenIn path of two pools was priced at a positive amount, and the second
\* hop was handed another amount than the first
C18_Witness ==
  /\ sorPc = "priced"
  /\ pricedPath.path.swapKind = GivenIn
  /\ Len(pricedPath.path.pools) = 2
  /\ pricedPath.path.swapAmount.amount > 0
  /\ pricedPath.calls[2].amount # pricedPath.calls[1].amount

\* C19: pricing a GivenOut path applies each pool's output-fixed quote along
\* the path in reverse token order, starting from the requested output
\* amount, and never returns the requested amount unchanged
C19_ReverseQuotes ==
  (/\ sorPc = "priced"
   /\ pricedPath.path.swapKind = GivenOut
   /\ pricedPath.path.swapAmount.token = pricedPath.path.tokens[Len(pricedPath.path.tokens)]
   /\ pricedPath.path.swapAmount.amount > 0) =>
    LET pwa == pricedPath.path
        calls == pricedPath.calls
        n == Len(pwa.pools)
    IN /\ Len(calls) = n
       /\ \A i \in 1..Len(calls) :
             /\ calls[i].fn = "swapGivenOut"
             /\ calls[i].pool = pwa.pools[n + 1 - i].id
             /\ calls[i].tokenIn = pwa.tokens[n + 1 - i]
             /\ calls[i].tokenOut = pwa.tokens[n + 2 - i]
             /\ calls[i].amount = IF i = 1 THEN pwa.swapAmount ELSE calls[i - 1].returned
       /\ pricedPath.value = calls[Len(calls)].returned
       /\ pricedPath.value # pwa.swapAmount

\* the tokens of the per-path input and output amounts of a swap
InputTokens(sw) == {sw.paths[k].inputAmount.token : k \in 1..Len(sw.paths)}
OutputTokens(sw) == {sw.paths[k].outputAmount.token : k \in 1..Len(sw.paths)}

\* C20: reading the aggregate input amount of a swap whose paths do not share
\* one input token throws, and so does reading the aggregate output amount
\* when they do not share one output token; no sum over mixed tokens is
\* returned
C20_MixedTokensThrow ==
  sorPc = "read" =>
    /\ (amountRead.getter = "inputAmount" /\ Cardinality(InputTokens(swap)) > 1)
          => IsError(amountRead.outcome)
    /\ (amountRead.getter = "outputAmount" /\ Cardinality(OutputTokens(swap)) > 1)
          => IsError(amountRead.outcome)

\* the aggregate input amount of a swap over paths from A and from B was read
\* and threw, where the aggregate output of a swap over such paths may be read
C20_Witness ==
  /\ sorPc = "read"
  /\ amountRead.getter = "inputAmount"
  /\ InputTokens(swap) = {"A", "B"}
  /\ OutputTokens(swap) = {"C"}
  /\ IsError(amountRead.outcome)

\* C21: a route is never empty: a Swap built from zero paths is the error,
\* every Swap value has a path, and a request for which the search hands over
\* no candidate path ends in the error, not in a route
C21_RouteNeverEmpty ==
  /\ (swap # <<>> /\ ~IsError(swap)) => Len(swap.paths) >= 1
  /\ Quoted => Len(swapInfo.swap.paths) >= 1 /\ Len(swapInfo.paths) >= 1
  /\ (sorPc = "quoted" /\ getCandidatePaths(request.tokenIn, request.tokenOut) = {<<>>})
        => IsError(swapInfo)

\* Swap.fromPaths was called with no path and threw
C21_Witness == sorPc = "built" /\ IsError(swap)

\* C22: a call with tokenIn equal to tokenOut or with an invalid config
\* (maxPathsPerTokenPair < 1, approxPathsToReturn < 1) is rejected before any
\* search step: it never enters the search and never returns a result
C22_EagerValidation ==
  (\/ tokenIn = tokenOut
   \/ config.approxPathsToReturn < 1
   \/ maxPathsPerTokenPair < 1) => pc = "idle"

\* the requests whose candidate paths have been searched
Searched == {i \in Requests : reqs[i].pc \in {"bestPaths", "returned"}}

\* C23: two interleaved getSwaps calls do not interfere: the graph and the
\* pool map each call's search read are the ones built from the pools that
\* call fetched, its candidate paths hold pools of that snapshot only and
\* are the paths a search alone on that graph returns, and its route is
\* the one selected from its own candidate paths
C23_NoInterference ==
  /\ \A i \in Requests :
        reqs[i].pc = "getCandidatePaths" =>
           /\ graph = GraphEdges(reqs[i].pools, DefaultMaxPathsPerTokenPair)
           /\ poolAddressMap = keyBy(reqs[i].pools)
  /\ \A i \in Searched :
        /\ reqs[i].observed.graph = GraphEdges(reqs[i].pools, DefaultMaxPathsPerTokenPair)
        /\ reqs[i].observed.poolAddressMap = keyBy(reqs[i].pools)
        /\ \A k \in 1..Len(reqs[i].candidatePaths) :
              \A h \in 1..Len(reqs[i].candidatePaths[k].pools) :
                 InSeq(reqs[i].candidatePaths[k].pools[h], reqs[i].pools)
        /\ (graph = reqs[i].observed.graph /\ pc = "idle") =>
              reqs[i].candidatePaths =
                 traverseGraphAndFindBestPaths(reqs[i].tokenIn, reqs[i].tokenOut,
                                               DefaultConfig)
        /\ (reqs[i].pc = "returned" /\ ~IsError(reqs[i].swapInfo)) =>
              \A k \in 1..Len(reqs[i].swapInfo.paths) :
                 \E c \in Range(reqs[i].candidatePaths) :
                    /\ c.tokens = reqs[i].swapInfo.paths[k].path.tokens
                    /\ c.pools = reqs[i].swapInfo.paths[k].path.pools

\* two calls are past their search at once, each with candidate paths, over
\* different pool snapshots
C23_Witness ==
  /\ Searched = Requests
  /\ reqs[1].pools # reqs[2].pools
  /\ reqs[1].candidatePaths # <<>>
  /\ reqs[2].candidatePaths # <<>>
  /\ reqs[1].candidatePaths # reqs[2].candidatePaths

\* a join call has been built
JoinBuilt == joinCall # <<>> /\ ~IsError(joinCall)

\* C24: an Init or Unbalanced join keeps the input amounts as maxAmountsIn
\* and takes the slippage off the bpt out; a SingleAsset or Proportional join
\* keeps the bpt out as minBptOut and applies the slippage to every amount in
C24_JoinSlippage ==
  JoinBuilt =>
    LET input == joinCall.input
    IN IF input.addLiquidityKind \in {"Init", "Unbalanced"}
       THEN /\ joinCall.maxAmountsIn = <<input.amountsIn[1].amount, input.amountsIn[2].amount>>
            /\ joinCall.minBptOut = removeFrom(input.slippage, input.bptOut.amount)
       ELSE /\ joinCall.minBptOut = input.bptOut.amount
            /\ joinCall.maxAmountsIn =
                 <<applyTo(input.slippage, input.amountsIn[1].amount),
                   applyTo(input.slippage, input.amountsIn[2].amount)>>

\* a single-asset join is built whose slippage moves the amount in, the bpt
\* out staying as given though the slippage would move it
C24_Witness ==
  /\ JoinBuilt
  /\ joinCall.input.addLiquidityKind = "SingleAsset"
  /\ joinCall.maxAmountsIn[2] > joinCall.input.amountsIn[2].amount
  /\ joinCall.minBptOut = joinCall.input.bptOut.amount
  /\ removeFrom(joinCall.input.slippage, joinCall.input.bptOut.amount) < joinCall.minBptOut

\* the parallel edges of hop k of a found path
HopEdges(path, k) == outEdges(path[k].tokenIn, path[k].tokenOut)

\* C25: a path accepted at rank idx takes, at every hop, the edge ranked idx
\* where the hop has more than idx parallel edges and the top edge
\* elsewhere, and some hop has more than idx parallel edges; so a path
\* accepted at idx > 0 uses the edge ranked idx at one hop at least
C25_RankPerHop ==
  [][(pc = "search" /\ Len(paths') = Len(paths) + 1) =>
       LET path == paths'[Len(paths')]
       IN /\ \A k \in 1..Len(path) :
                path[k] = IF Len(HopEdges(path, k)) > idx
                          THEN HopEdges(path, k)[idx + 1]
                          ELSE HopEdges(path, k)[1]
          /\ \E k \in 1..Len(path) :
                /\ Len(HopEdges(path, k)) > idx
                /\ path[k] = HopEdges(path, k)[idx + 1]]_vars

\* the path accepted last takes the top edge at one hop and a lower ranked
\* edge at another: it was built at idx > 0 over a hop with too few edges
C25_Witness ==
  /\ pc = "search"
  /\ idx > 0
  /\ paths # <<>>
  /\ LET path == paths[Len(paths)]
     IN /\ \E k \in 1..Len(path) :
              Len(HopEdges(path, k)) > idx /\ path[k] = HopEdges(path, k)[idx + 1]
        /\ \E k \in 1..Len(path) :
              Len(HopEdges(path, k)) <= idx /\ path[k] = HopEdges(path, k)[1]

\* C26: the steps of a findPaths call leave the graph, the pool map, the
\* edge cap and the initialized flag as they are, and the call starts with
\* its own empty lists of paths, selected path ids and seen pools
C26_GraphReadOnly ==
  [][/\ (pc # "idle" \/ pc' # "idle") => UNCHANGED graphVars
     /\ (pc = "idle" /\ pc' # "idle") =>
           paths' = <<>> /\ selectedPathIds' = <<>> /\ seenPoolAddresses' = <<>>]_vars

\* a call that accepted paths, relaxed its seen pools and returned, over the
\* graph built from its snapshot
C26_Witness ==
  /\ pc = "done"
  /\ Len(result) > 1
  /\ relaxLog # <<>>
  /\ graphIsInitialized
  /\ \E pools \in Snapshots : graph = GraphEdges(pools, maxPathsPerTokenPair)

\* a Swap value is held
HasSwap == swap # <<>> /\ ~IsError(swap)

\* the number of steps emitted for the paths before path k
RECURSIVE StepOffset(_,_)
StepOffset(s, k) ==
  IF k = 1 THEN 0 ELSE StepOffset(s, k - 1) + Len(s.paths[k - 1].path.pools)

\* the step emitted for hop j of path k
StepOf(s, k, j) ==
  LET n == Len(s.paths[k].path.pools)
  IN s.swaps[StepOffset(s, k) + (IF s.swapKind = GivenIn THEN j ELSE n + 1 - j)]

C28_BatchExactly ==
  HasSwap =>
    /\ swap.isBatchSwap <=> Len(swap.swaps) > 1
    /\ ~swap.isBatchSwap => Len(swap.swaps) = 1

\* the place (from 0) of a pool among the retained edges of an ordered pair
EdgeRank(v, w, pool) ==
  LET edges == outEdges(v, w)
  IN (CHOOSE i \in 1..Len(edges) : edges[i].poolAddress = pool.address) - 1

\* C29: every hop of a returned path uses an edge whose place among the
\* retained edges of its ordered token pair is below maxPathsPerTokenPair,
\* so an edge a phantom-bearing pool keeps at a lower rank is in no path
C29_RankBelowCap ==
  Returned =>
    \A r \in 1..Len(result) :
       \A k \in 1..Len(result[r].pools) :
          /\ \E e \in Range(outEdges(result[r].tokens[k], result[r].tokens[k + 1])) :
                e.poolAddress = result[r].pools[k].address
          /\ EdgeRank(result[r].tokens[k], result[r].tokens[k + 1], result[r].pools[k])
                < maxPathsPerTokenPair

\* paths were returned over a hop where the graph retains more edges than
\* the cap, the last one of a phantom-bearing pool
C29_Witness ==
  /\ Returned
  /\ \E r \in 1..Len(result) :
        \E k \in 1..Len(result[r].pools) :
           LET edges == outEdges(result[r].tokens[k], result[r].tokens[k + 1])
           IN /\ Len(edges) > maxPathsPerTokenPair
              /\ InSeq(edges[Len(edges)].poolAddress,
                       poolAddressMap[edges[Len(edges)].poolAddress].tokens)

\* C30: after any sequence of successful and failed builds the instance is
\* as its last successful build left it: every edge of the graph refers to a
\* pool of the pool-address map
C30_AllOrNothing ==
  \A k \in 1..Len(graph) : graph[k].poolAddress \in DOMAIN poolAddressMap

\* the run of a call from entry to return gives the paths the steps of the
\* call return
BigStepAgrees ==
  Returned => result = traverseGraphAndFindBestPaths(tokenIn, tokenOut, config)

\* under the default config the while test of a search holds whenever it is
\* made
WhileTestHolds == pc = "while" => Len(paths) < config.approxPathsToReturn
====
